---- MODULE Spec2Model ----
(***************************************************************************)
(* blockdedup: block-aligned deduplication driven by a CRC-indexed table.  *)
(* The model follows src/src/main.rs: build_file_list, the scan loop of    *)
(* main, try_dedupe_match, find_matching_blocks_before/behind, do_dedup.   *)
(* A block's 4096 bytes are abstracted to a BlockBits-bit number; the      *)
(* checksum is a real (scaled down) non-reflected CRC with init 0 and      *)
(* xorout 0, as CRC-64/ECMA-182 is, so the all-zero block has checksum 0   *)
(* and distinct blocks can share a checksum.                               *)
(***************************************************************************)
EXTENDS Integers, Sequences, FiniteSets, TLC

\* ------------------------------------------------------------------ bounds
\* bits of an abstract block's content
BlockBits == 4
\* width of the scaled-down CRC register
CrcWidth == 3
\* low bits of the scaled-down CRC generator polynomial (x^3 + x + 1)
CrcPoly == 3
\* exhaustively enumerated inputs: number of paths and total whole blocks
MaxFiles == 2
MaxTotalBlocks == 4
\* longest file of the long-run inputs
BigLen == 17
\* periodic inputs: longest period and longest file
MaxPeriod == 3
PeriodicLen == 7

\* ------------------------------------------------------- program constants
\* bytes per block (the literal 4096)
BlockSize == 4096
\* minimum run length for which do_dedup is called
MinDedupBlocks == 16

\* ------------------------------------------------------------- checksum
RECURSIVE Xor(_, _)
Xor(a, b) ==
    IF a = 0 THEN b
    ELSE IF b = 0 THEN a
    ELSE (((a % 2) + (b % 2)) % 2) + (2 * Xor(a \div 2, b \div 2))

Bit(v, i) == (v \div (2 ^ i)) % 2

\* feed bits i-1 .. 0 of block b, most significant first, into register reg
RECURSIVE CrcUpdate(_, _, _)
CrcUpdate(reg, b, i) ==
    IF i = 0 THEN reg
    ELSE LET top == Xor(Bit(reg, CrcWidth - 1), Bit(b, i - 1))
             shifted == (reg * 2) % (2 ^ CrcWidth)
         IN  CrcUpdate(IF top = 1 THEN Xor(shifted, CrcPoly) ELSE shifted, b, i - 1)

AllBlocks == 0 .. (2 ^ BlockBits) - 1

CrcTable == [b \in AllBlocks |-> CrcUpdate(0, b, BlockBits)]

\* crc.digest(); digest.update(&buf); digest.finalize()
Crc(b) == CrcTable[b]

\* ------------------------------------------------------------- inputs
\* the all-zero block, two blocks with equal checksum, one more block
SmallBlocks == {0, 1, 10, 2}

\* blocks of the long-run inputs (all with nonzero checksum)
BigBlocks == {1, 2}

RECURSIVE SumLens(_)
SumLens(s) == IF s = <<>> THEN 0 ELSE Head(s) + SumLens(Tail(s))

\* file i (1-based) of the catalog that stores flat with whole-block counts lens
Cut(flat, lens, i) ==
    LET start == SumLens(SubSeq(lens, 1, i - 1))
    IN  SubSeq(flat, start + 1, start + lens[i])

Split(flat, lens) == [i \in 1 .. Len(lens) |-> Cut(flat, lens, i)]

\* n blocks: first, then fill; for pos > 0 the block at 0-based position pos is odd
BigFile(first, fill, n, pos, odd) ==
    [i \in 1 .. n |-> IF pos > 0 /\ i = pos + 1 THEN odd
                      ELSE IF i = 1 THEN first ELSE fill]

\* the differing block of the long-run inputs
OddBlock == 10

BigLens == (MinDedupBlocks - 2) .. BigLen

\* position of the one differing block of the second file; 0: none
BigOddPositions == {0, MinDedupBlocks - 1, MinDedupBlocks}

\* n blocks repeating the pattern pat
Periodic(pat, n) == [i \in 1 .. n |-> pat[((i - 1) % Len(pat)) + 1]]

PeriodicLens == (PeriodicLen - 2) .. PeriodicLen

\* position of the one distinct block of the late-hit inputs
LatePositions == (MinDedupBlocks - 1) .. (BigLen - 1)

VARIABLES
    inputs,            \* the regular files under the path: each its whole blocks
    simulate,          \* args.simulate
    file_list,         \* Vec<FileInfo>: content of each listed file (full_blocks = Len)
    hashes,            \* Vec<Blockinfo>, indexed from 0
    file_index,        \* 0-based index of the file being scanned
    block_number,
    skip_match_check,
    matches,
    total_matchsize,
    pc,                \* "start", "files", "scan", "done", "aborted", "panicked"
    last,              \* what the most recent loop iteration did
    visited,           \* addresses the scan loop has read, in order
    reports,           \* the matches printed at line 282, in order
    requests           \* the FIDEDUPERANGE calls made so far, with their outcome

vars == <<inputs, simulate, file_list, hashes, file_index, block_number,
          skip_match_check, matches, total_matchsize, pc, last, visited, reports, requests>>

NoVisit ==
    [kind |-> "none", file |-> 0, block |-> 0, crc |-> 0, slot |-> 0,
     keep_file |-> 0, keep_offset |-> 0, blocks_before |-> 0, blocks_after |-> 0,
     requested |-> FALSE, result |-> 0, short |-> FALSE, status |-> 0]

SmallInit ==
    \E t \in 0 .. MaxTotalBlocks, k \in 0 .. MaxFiles :
      \E flat \in [1 .. t -> SmallBlocks], lens \in [1 .. k -> 0 .. MaxTotalBlocks] :
        /\ SumLens(lens) = t
        /\ inputs = Split(flat, lens)

\* two long files equal up to one block, and a third that is empty or a copy
BigInit ==
    \E first \in BigBlocks, fill \in BigBlocks, n0 \in BigLens, n1 \in BigLens,
       pos \in BigOddPositions, n2 \in {0, MinDedupBlocks} :
        inputs = << BigFile(first, fill, n0, 0, OddBlock),
                    BigFile(first, fill, n1, pos, OddBlock),
                    BigFile(first, fill, n2, 0, OddBlock) >>

\* one or two files repeating a short pattern
PeriodicInit ==
    \E p \in 1 .. MaxPeriod, n0 \in PeriodicLens, n1 \in {0} \cup PeriodicLens :
      \E pat \in [1 .. p -> SmallBlocks] :
        inputs = << Periodic(pat, n0), Periodic(pat, n1) >>

\* two files of one repeated block that end in one and the same other block
LateInit ==
    \E fill \in BigBlocks, p0 \in LatePositions, p1 \in LatePositions :
      \E end \in BigBlocks \ {fill} :
        inputs = << BigFile(fill, fill, p0 + 1, p0, end),
                    BigFile(fill, fill, p1 + 1, p1, end) >>

Init ==
    /\ (SmallInit \/ BigInit \/ PeriodicInit \/ LateInit)
    /\ simulate \in BOOLEAN
    /\ file_list = <<>>
    /\ hashes = <<>>
    /\ file_index = 0
    /\ block_number = 0
    /\ skip_match_check = 0
    /\ matches = 0
    /\ total_matchsize = 0
    /\ pc = "start"
    /\ last = NoVisit
    /\ visited = <<>>
    /\ reports = <<>>
    /\ requests = <<>>

\* ------------------------------------------------------ build_file_list
\* a catalog that also lists the files with no whole block
build_file_list_all(paths) == paths

\* build_file_list_recurse: a regular file with no whole block is not listed
RECURSIVE build_file_list(_)
build_file_list(paths) ==
    IF paths = <<>> THEN <<>>
    ELSE IF Len(Head(paths)) = 0 THEN build_file_list(Tail(paths))
    ELSE <<Head(paths)>> \o build_file_list(Tail(paths))

RECURSIVE total_full_blocks(_)
total_full_blocks(list) ==
    IF list = <<>> THEN 0 ELSE Len(Head(list)) + total_full_blocks(Tail(list))

EmptyBlockinfo == [crc |-> 0, block_number_plus_one |-> 0, file_index |-> 0]

\* a table that is given one slot when the catalog has no whole block
new_table_min_one(slots) ==
    [i \in 0 .. (IF slots = 0 THEN 1 ELSE slots) - 1 |-> EmptyBlockinfo]

\* line 115: vec![Blockinfo {crc: 0, block_number_plus_one: 0, file_index: 0}; slots]
new_table(slots) == [i \in 0 .. slots - 1 |-> EmptyBlockinfo]

\* main, lines 109-122: the catalog, the table and the totals
Start ==
    /\ pc = "start"
    /\ file_list' = build_file_list(inputs)
    /\ hashes' = new_table(total_full_blocks(build_file_list(inputs)))
    /\ matches' = 0
    /\ total_matchsize' = 0
    /\ file_index' = 0
    /\ pc' = "files"
    /\ UNCHANGED <<inputs, simulate, block_number, skip_match_check, last, visited, reports, requests>>

\* a loop that declares the skip-counter outside the for loop
OpenFile_keeps_skip ==
    /\ pc = "files"
    /\ file_index < Len(file_list)
    /\ block_number' = 0
    /\ pc' = "scan"
    /\ UNCHANGED <<inputs, simulate, file_list, hashes, file_index, skip_match_check,
                   matches, total_matchsize, last, visited, reports, requests>>

\* the for loop takes the next file: lines 124-133
OpenFile ==
    /\ pc = "files"
    /\ file_index < Len(file_list)
    /\ block_number' = 0
    /\ skip_match_check' = 0
    /\ pc' = "scan"
    /\ UNCHANGED <<inputs, simulate, file_list, hashes, file_index, matches,
                   total_matchsize, last, visited, reports, requests>>

\* the while loop of a file ends: line 135 false, back to the for loop
EndFile ==
    /\ pc = "scan"
    /\ ~(block_number < Len(file_list[file_index + 1]))
    /\ file_index' = file_index + 1
    /\ pc' = "files"
    /\ UNCHANGED <<inputs, simulate, file_list, hashes, block_number, skip_match_check,
                   matches, total_matchsize, last, visited, reports, requests>>

\* --------------------------------------------- find_matching_blocks_before
\* lines 298-316: the bound of the backward search
max_blocks_before(keep_equals_dedup, block_offset_keep, block_offset_dedup) ==
    LET m == IF block_offset_keep < block_offset_dedup
             THEN block_offset_keep ELSE block_offset_dedup
        tmp == block_offset_dedup - block_offset_keep
    IN  IF keep_equals_dedup /\ tmp < m THEN tmp ELSE m

\* lines 320-342: for block_offset in 1..max (max excluded), then return max
RECURSIVE before_loop(_, _, _, _, _, _)
before_loop(fkeep, block_offset_keep, fdedup, block_offset_dedup, max, block_offset) ==
    IF block_offset >= max THEN max
    ELSE LET buf_keep == fkeep[block_offset_keep - block_offset + 1]
             buf_dedupe == fdedup[block_offset_dedup - block_offset + 1]
         IN  IF Crc(buf_keep) = 0 THEN block_offset - 1
             ELSE IF buf_keep # buf_dedupe THEN block_offset - 1
             ELSE before_loop(fkeep, block_offset_keep, fdedup, block_offset_dedup,
                              max, block_offset + 1)

find_matching_blocks_before(keep_equals_dedup, fkeep, block_offset_keep, fdedup, block_offset_dedup) ==
    before_loop(fkeep, block_offset_keep, fdedup, block_offset_dedup,
                max_blocks_before(keep_equals_dedup, block_offset_keep, block_offset_dedup),
                1)

\* --------------------------------------------- find_matching_blocks_behind
\* lines 351-369: the bound of the forward search
max_blocks_behind(keep_equals_dedup, block_offset_keep, full_blocks_keep, block_offset_dedup, full_blocks_dedup, matching_before) ==
    LET a == full_blocks_keep - block_offset_keep
        b == full_blocks_dedup - block_offset_dedup
        m == IF a < b THEN a ELSE b
        tmp == block_offset_dedup - block_offset_keep - matching_before
    IN  IF keep_equals_dedup /\ tmp < m THEN tmp ELSE m

\* a forward search that forgets what it matched when it meets a differing pair
RECURSIVE behind_loop_forgets(_, _, _, _, _, _)
behind_loop_forgets(fkeep, block_offset_keep, fdedup, block_offset_dedup, max, block_offset) ==
    IF block_offset >= max THEN max
    ELSE LET buf_keep == fkeep[block_offset_keep + block_offset + 1]
             buf_dedup == fdedup[block_offset_dedup + block_offset + 1]
         IN  IF Crc(buf_keep) = 0 THEN block_offset - 1
             ELSE IF buf_keep # buf_dedup THEN 0
             ELSE behind_loop_forgets(fkeep, block_offset_keep, fdedup,
                                      block_offset_dedup, max, block_offset + 1)

\* lines 371-395: both readers start one block behind the hit and read in step
RECURSIVE behind_loop(_, _, _, _, _, _)
behind_loop(fkeep, block_offset_keep, fdedup, block_offset_dedup, max, block_offset) ==
    IF block_offset >= max THEN max
    ELSE LET buf_keep == fkeep[block_offset_keep + block_offset + 1]
             buf_dedup == fdedup[block_offset_dedup + block_offset + 1]
         IN  IF Crc(buf_keep) = 0 THEN block_offset - 1
             ELSE IF buf_keep # buf_dedup THEN block_offset - 1
             ELSE behind_loop(fkeep, block_offset_keep, fdedup, block_offset_dedup,
                              max, block_offset + 1)

find_matching_blocks_behind(keep_equals_dedup, fkeep, block_offset_keep, fdedup, block_offset_dedup, matching_before) ==
    behind_loop(fkeep, block_offset_keep, fdedup, block_offset_dedup,
                max_blocks_behind(keep_equals_dedup, block_offset_keep, Len(fkeep),
                                  block_offset_dedup, Len(fdedup), matching_before),
                1)

\* ----------------------------------------------------------- try_dedupe_match
\* a threshold that leaves out the run of exactly MinDedupBlocks
dedup_wanted_above(sim, blocks_dedupe_count) ==
    ~sim /\ blocks_dedupe_count > MinDedupBlocks

\* line 284: whether do_dedup is called for a run of this length
dedup_wanted(sim, blocks_dedupe_count) == ~sim /\ blocks_dedupe_count >= MinDedupBlocks

\* the assert!(block_offset_keep < block_offset_dedup) of lines 309 and 362
assert_fails(keep_equals_dedup, block_offset_keep, block_offset_dedup) ==
    keep_equals_dedup /\ ~(block_offset_keep < block_offset_dedup)

\* a comparison that trusts the checksum
bytes_differ_never(buf_keep, buf_dedupe) == FALSE

\* line 256: buf_keep != buf_dedupe
bytes_differ(buf_keep, buf_dedupe) == buf_keep # buf_dedupe

\* lines 234-291 up to the call of do_dedup. Paths of the catalog are distinct, so
\* file_path_keep == file_path_dedup is equality of the file indices.
try_dedupe_match(keep_index, block_offset_keep, dedup_index, block_offset_dedup, sim) ==
    LET fkeep == file_list[keep_index + 1]
        fdedup == file_list[dedup_index + 1]
        same == keep_index = dedup_index
    IN  IF bytes_differ(fkeep[block_offset_keep + 1], fdedup[block_offset_dedup + 1])
        THEN [outcome |-> "collision", matched_blocks |-> 0, blocks_before |-> 0,
              blocks_behind |-> 0, dedup |-> FALSE]
        ELSE IF assert_fails(same, block_offset_keep, block_offset_dedup)
        THEN [outcome |-> "panic", matched_blocks |-> 0, blocks_before |-> 0,
              blocks_behind |-> 0, dedup |-> FALSE]
        ELSE LET blocks_before == find_matching_blocks_before(
                                      same, fkeep, block_offset_keep,
                                      fdedup, block_offset_dedup)
                 blocks_behind == find_matching_blocks_behind(
                                      same, fkeep, block_offset_keep,
                                      fdedup, block_offset_dedup, blocks_before)
                 blocks_dedupe_count == blocks_before + 1 + blocks_behind
             IN  [outcome |-> "match", matched_blocks |-> blocks_dedupe_count,
                  blocks_before |-> blocks_before, blocks_behind |-> blocks_behind,
                  dedup |-> dedup_wanted(sim, blocks_dedupe_count)]

\* ------------------------------------------------------------------ do_dedup
\* what the kernel may answer: the ioctl's return value, whether bytes_deduped
\* falls short of src_length, and info.status (0 same, 1 differs)
IoctlOutcomes ==
    { [result |-> 0, short |-> FALSE, status |-> 0],
      [result |-> 0, short |-> TRUE, status |-> 0],
      [result |-> 0, short |-> FALSE, status |-> 1],
      [result |-> -1, short |-> FALSE, status |-> 0] }

NoIoctl == [result |-> 0, short |-> FALSE, status |-> 0]

\* a request with the source and the destination exchanged
dedup_request_swapped(keep_index, block_offset_keep, dedup_index, block_offset_dedup, blocks_dedup_count, out) ==
    [src_file |-> dedup_index,
     src_offset |-> block_offset_dedup * BlockSize,
     src_length |-> blocks_dedup_count * BlockSize,
     dest_count |-> 1, reserved1 |-> 0, reserved2 |-> 0,
     dest_file |-> keep_index,
     dest_offset |-> block_offset_keep * BlockSize,
     reserved |-> 0,
     result |-> out.result,
     bytes_deduped |-> IF out.result # 0 THEN 0
                       ELSE IF out.short THEN (blocks_dedup_count - 1) * BlockSize
                       ELSE blocks_dedup_count * BlockSize,
     status |-> out.status]

\* lines 406-431: the request handed to the ioctl, with what came back
dedup_request(keep_index, block_offset_keep, dedup_index, block_offset_dedup, blocks_dedup_count, out) ==
    [src_file |-> keep_index,
     src_offset |-> block_offset_keep * BlockSize,
     src_length |-> blocks_dedup_count * BlockSize,
     dest_count |-> 1, reserved1 |-> 0, reserved2 |-> 0,
     dest_file |-> dedup_index,
     dest_offset |-> block_offset_dedup * BlockSize,
     reserved |-> 0,
     result |-> out.result,
     bytes_deduped |-> IF out.result # 0 THEN 0
                       ELSE IF out.short THEN (blocks_dedup_count - 1) * BlockSize
                       ELSE blocks_dedup_count * BlockSize,
     status |-> out.status]

\* a do_dedup that only prints the error
dedup_never_panics(out) == FALSE

\* lines 432-444: a nonzero result panics; anything else prints and returns
dedup_panics(out) == out.result # 0

\* --------------------------------------------------------- the scan loop
\* an insert that leaves an occupied slot alone
insert_once(table, hash_index, crc_result, number, index) ==
    IF table[hash_index].block_number_plus_one > 0 THEN table
    ELSE [table EXCEPT ![hash_index] =
            [crc |-> crc_result, block_number_plus_one |-> number + 1,
             file_index |-> index]]

\* an insert that stores the checksum and leaves the location as it was
insert_keeps_location(table, hash_index, crc_result, number, index) ==
    [table EXCEPT ![hash_index].crc = crc_result,
                  ![hash_index].block_number_plus_one =
                      IF @ > 0 THEN @ ELSE number + 1]

\* lines 173-175: the slot takes the current block
insert(table, hash_index, crc_result, number, index) ==
    [table EXCEPT ![hash_index] =
        [crc |-> crc_result, block_number_plus_one |-> number + 1, file_index |-> index]]

\* line 155: the slot is occupied and holds the checksum
lookup_hits(table, hash_index, crc_result) ==
    table[hash_index].block_number_plus_one > 0 /\ table[hash_index].crc = crc_result

\* line 145: the slot of a checksum while a file of block_count blocks is scanned
slot_of(crc_result, block_count) == crc_result % block_count

\* an advance that jumps over the blocks the skip-counter covers
advance_past_run(number) == number + 1 + skip_match_check

\* line 177
advance(number) == number + 1

\* a lookup that runs after this block's insert
lookup_table_late(before_insert, after_insert) == after_insert

\* lines 153-157 come before lines 173-175: the lookup reads the table as it was
\* before this block's insert
lookup_table(before_insert, after_insert) == before_insert

\* a scan that treats the zero checksum like any other
is_hole_never(crc_result) == FALSE

\* line 143: crc_result != 0 fails
is_hole(crc_result) == crc_result = 0

\* lines 139-145 for the block about to be read
current_crc == Crc(file_list[file_index + 1][block_number + 1])

current_slot == slot_of(current_crc, Len(file_list[file_index + 1]))

NoCall ==
    [outcome |-> "none", matched_blocks |-> 0, blocks_before |-> 0,
     blocks_behind |-> 0, dedup |-> FALSE]

\* lines 143-163: try_dedupe_match is called for a block that is no hole, while
\* the skip-counter is 0, when the lookup hits
confirm ==
    LET inserted == insert(hashes, current_slot, current_crc, block_number, file_index)
        table == lookup_table(hashes, inserted)
    IN  IF is_hole(current_crc) \/ skip_match_check > 0
           \/ ~lookup_hits(table, current_slot, current_crc)
        THEN NoCall
        ELSE try_dedupe_match(table[current_slot].file_index,
                              table[current_slot].block_number_plus_one - 1,
                              file_index, block_number, simulate)

\* one iteration of the while loop, lines 137-177, with do_dedup; m is what
\* try_dedupe_match returned, if called, and out the kernel's answer should the
\* ioctl be called
visit(m, out) ==
    LET crc_result == current_crc
        hash_index == current_slot
        seen == [NoVisit EXCEPT !.file = file_index, !.block = block_number,
                                !.crc = crc_result]
        stay == [hashes |-> hashes, skip |-> skip_match_check, matches |-> matches,
                 total |-> total_matchsize, block_number |-> advance(block_number),
                 pc |-> "scan", requests |-> requests, reports |-> reports,
                 last |-> seen]
        inserted == insert(hashes, hash_index, crc_result, block_number, file_index)
    IN  IF is_hole(crc_result)
        THEN [stay EXCEPT !.last.kind = "hole"]
        ELSE IF skip_match_check > 0
        THEN [stay EXCEPT !.skip = skip_match_check - 1, !.hashes = inserted,
                          !.last.kind = "skip", !.last.slot = hash_index]
        ELSE IF m.outcome = "none"
        THEN [stay EXCEPT !.hashes = inserted,
                          !.last.kind = "miss", !.last.slot = hash_index]
        ELSE
          LET matched_block_info == lookup_table(hashes, inserted)[hash_index]
              keep_index == matched_block_info.file_index
              block_number_keep == matched_block_info.block_number_plus_one - 1
              hit == [seen EXCEPT !.slot = hash_index, !.keep_file = keep_index,
                                  !.keep_offset = block_number_keep,
                                  !.blocks_before = m.blocks_before,
                                  !.blocks_after = m.blocks_behind,
                                  !.requested = m.dedup]
              req == dedup_request(keep_index, block_number_keep - m.blocks_before,
                                   file_index, block_number - m.blocks_before,
                                   m.matched_blocks, out)
              answered == [hit EXCEPT !.result = out.result, !.short = out.short,
                                      !.status = out.status]
              printed == Append(reports,
                                [keep_file |-> keep_index,
                                 keep_offset |-> block_number_keep,
                                 new_file |-> file_index, new_offset |-> block_number,
                                 blocks_before |-> m.blocks_before,
                                 blocks_after |-> m.blocks_behind])
          IN  IF m.outcome = "panic"
              THEN [stay EXCEPT !.pc = "panicked", !.block_number = block_number,
                                !.last = [hit EXCEPT !.kind = "panic"]]
              ELSE IF m.outcome = "collision"
              THEN [stay EXCEPT !.hashes = inserted,
                                !.last = [hit EXCEPT !.kind = "collision"]]
              ELSE IF m.dedup /\ dedup_panics(out)
              THEN [stay EXCEPT !.pc = "aborted", !.block_number = block_number,
                                !.requests = Append(requests, req),
                                !.reports = printed,
                                !.last = [answered EXCEPT !.kind = "match"]]
              ELSE [stay EXCEPT !.hashes = inserted,
                                !.matches = matches + 1,
                                !.total = total_matchsize + m.matched_blocks,
                                !.skip = m.blocks_behind,
                                !.reports = printed,
                                !.requests = IF m.dedup THEN Append(requests, req)
                                             ELSE requests,
                                !.last = [IF m.dedup THEN answered ELSE hit
                                          EXCEPT !.kind = "match"]]

VisitBlock ==
    /\ pc = "scan"
    /\ block_number < Len(file_list[file_index + 1])
    /\ \E m \in {confirm}, out \in IoctlOutcomes :
         \E v \in {visit(m, out)} :
             /\ (~m.dedup) => out = NoIoctl
             /\ hashes' = v.hashes
             /\ skip_match_check' = v.skip
             /\ matches' = v.matches
             /\ total_matchsize' = v.total
             /\ block_number' = v.block_number
             /\ pc' = v.pc
             /\ requests' = v.requests
             /\ reports' = v.reports
             /\ last' = v.last
    /\ visited' = Append(visited, <<file_index, block_number>>)
    /\ UNCHANGED <<inputs, simulate, file_list, file_index>>

\* the for loop is exhausted: line 180
Finish ==
    /\ pc = "files"
    /\ ~(file_index < Len(file_list))
    /\ pc' = "done"
    /\ UNCHANGED <<inputs, simulate, file_list, hashes, file_index, block_number,
                   skip_match_check, matches, total_matchsize, last, visited, reports, requests>>

Next == Start \/ OpenFile \/ VisitBlock \/ EndFile \/ Finish

Spec == Init /\ [][Next]_vars

\* ================================================================ claims
\* the most recent iteration printed a match (line 282)
Reported == last.kind = "match"

RunLength == last.blocks_before + 1 + last.blocks_after

KeepFile == file_list[last.keep_file + 1]

NewFile == file_list[last.file + 1]

SameFile == last.keep_file = last.file

Distance == last.block - last.keep_offset

HasBlock(f, offset) == offset >= 0 /\ offset < Len(f)

\* block i of the reported run exists in both files
PairExists(i) ==
    /\ HasBlock(KeepFile, last.keep_offset - last.blocks_before + i)
    /\ HasBlock(NewFile, last.block - last.blocks_before + i)

KeepBlock(i) == KeepFile[last.keep_offset - last.blocks_before + i + 1]

NewBlock(i) == NewFile[last.block - last.blocks_before + i + 1]

\* C1: every block pair of a reported run (that exists in both files) is
\* byte-identical: keep_offset - blocks_before + i against
\* new_offset - blocks_before + i for i in 0 .. L-1.
C1_VerificationSoundness ==
    Reported =>
        \A i \in 0 .. RunLength - 1 : PairExists(i) => KeepBlock(i) = NewBlock(i)

\* C2: a reported run within one file has disjoint keep and new ranges:
\* blocks_before + 1 + blocks_after <= new_offset - keep_offset.
C2_SelfOverlapSafety ==
    (Reported /\ SameFile) => RunLength <= Distance

\* C3: no block of a reported run, in the keep range or in the new range, has
\* the zero/hole checksum.
C3_ZeroBlockExclusion ==
    Reported =>
        \A i \in 0 .. RunLength - 1 :
            PairExists(i) => (Crc(KeepBlock(i)) # 0 /\ Crc(NewBlock(i)) # 0)

\* the run grown by the pair at relative position i (-1: before, L: behind) would
\* still be inside both files, free of holes, equal and, in one file, disjoint
Extendable(i) ==
    /\ PairExists(i)
    /\ Crc(KeepBlock(i)) # 0
    /\ KeepBlock(i) = NewBlock(i)
    /\ SameFile => RunLength + 1 <= Distance

\* the pair j blocks before (j < 0) or behind (j > 0) the hit exists, is no hole
\* and is equal
GoodPair(j) ==
    /\ HasBlock(KeepFile, last.keep_offset + j)
    /\ HasBlock(NewFile, last.block + j)
    /\ Crc(KeepFile[last.keep_offset + j + 1]) # 0
    /\ KeepFile[last.keep_offset + j + 1] = NewFile[last.block + j + 1]

\* the longest backward extension from the hit that stays disjoint in one file
LongestBefore ==
    CHOOSE k \in 0 .. BigLen :
        /\ \A j \in 1 .. k : GoodPair(-j)
        /\ (SameFile /\ k > 0) => k + 1 <= Distance
        /\ ~(GoodPair(-(k + 1)) /\ (SameFile => k + 2 <= Distance))

\* the longest forward extension from the hit, b blocks being taken before it
LongestBehind(b) ==
    CHOOSE k \in 0 .. BigLen :
        /\ \A j \in 1 .. k : GoodPair(j)
        /\ (SameFile /\ k > 0) => b + k + 1 <= Distance
        /\ ~(GoodPair(k + 1) /\ (SameFile => b + k + 2 <= Distance))

\* C4: a reported run cannot be extended by one block in either direction: the
\* pair just before its start and the pair just after its end is outside a
\* file, a hole, overlapping or not byte-equal; blocks_before and blocks_after
\* are never smaller than the longest such extension from the hit.
C4_Maximality ==
    Reported =>
        /\ ~Extendable(-1)
        /\ ~Extendable(RunLength)
        /\ last.blocks_before >= LongestBefore
        /\ last.blocks_after >= LongestBehind(LongestBefore)
        /\ last.blocks_after >= LongestBehind(last.blocks_before)

\* a run whose forward search compared blocks and stopped at a differing pair
\* that exists in both files
C4_Witness ==
    /\ Reported
    /\ last.blocks_after >= 2
    /\ PairExists(RunLength)
    /\ KeepBlock(RunLength) # NewBlock(RunLength)

\* the step is an iteration of the scan loop
Visits == visited' # visited

\* C5: do_dedup is called for a reported match exactly when simulate is off and
\* the run has at least MinDedupBlocks blocks (15: never, 16: yes); a match found
\* in simulate mode is counted in the totals and issues nothing.
C5_ThresholdAndSimulateGating ==
    [][ Visits =>
          /\ (requests' # requests) <=>
                (Reported' /\ ~simulate /\ RunLength' >= MinDedupBlocks)
          /\ Reported' => last'.requested = (requests' # requests)
          /\ (Reported' /\ simulate) =>
                /\ requests' = <<>>
                /\ matches' = matches + 1
                /\ total_matchsize' = total_matchsize + RunLength' ]_vars

\* a run of exactly MinDedupBlocks blocks, simulate off, whose request went out
C5_Witness ==
    /\ Reported
    /\ RunLength = MinDedupBlocks
    /\ ~simulate
    /\ last.requested
    /\ requests # <<>>

\* C6: a nonzero result of the ioctl ends the run where it is: the slot is not
\* written, nothing is counted, the block number does not advance, no step
\* follows, and the requests made before stay as they were.
C6_DedupFailureIsFatal ==
    /\ [][ (Visits /\ last'.requested /\ last'.result # 0) =>
              /\ pc' = "aborted"
              /\ hashes' = hashes
              /\ matches' = matches
              /\ total_matchsize' = total_matchsize
              /\ skip_match_check' = skip_match_check
              /\ block_number' = block_number
              /\ SubSeq(requests', 1, Len(requests)) = requests ]_vars
    /\ [][ pc = "aborted" => UNCHANGED vars ]_vars

\* the second request of a run failed: the first one is still on record
C6_Witness ==
    /\ pc = "aborted"
    /\ Len(requests) = 2
    /\ requests[1].result = 0
    /\ requests[2].result # 0

\* C7: an ioctl that returns 0 with bytes_deduped short of src_length, or with
\* a status that says the ranges differ, ends the run.
C7_IncompleteShareIsFatal ==
    (Reported /\ last.requested /\ last.result = 0 /\ (last.short \/ last.status # 0))
        => pc = "aborted"

\* the catalog of Scenario B: two files, each the same block with a nonzero
\* checksum repeated MinDedupBlocks (16) times
ScenarioB ==
    /\ Len(file_list) = 2
    /\ \A f \in 1 .. 2 :
          /\ Len(file_list[f]) = MinDedupBlocks
          /\ \A i \in 1 .. MinDedupBlocks : file_list[f][i] = file_list[1][1]
    /\ Crc(file_list[1][1]) # 0

ReportLength(r) == r.blocks_before + 1 + r.blocks_after

Reports == {reports[i] : i \in DOMAIN reports}

\* C8 as stated: in Scenario B the scan of file 1 reports no match and the scan
\* of file 2 reports a run of 16 blocks, blocks 0..15 of file 1 against blocks
\* 0..15 of file 2.
C8_ScenarioB_AsStated ==
    (ScenarioB /\ pc = "done") =>
        /\ \A r \in Reports : r.new_file # 0
        /\ \E r \in Reports :
              /\ r.keep_file = 0 /\ r.new_file = 1
              /\ r.keep_offset - r.blocks_before = 0
              /\ r.new_offset - r.blocks_before = 0
              /\ ReportLength(r) = MinDedupBlocks

\* C8 amended: in Scenario B the scan of file 1 reports matches between its own
\* blocks, the scan of file 2 reports at its block 0 a match whose keep address
\* is block 15 of file 1 (the block last stored in the slot), no reported run
\* has 16 blocks or more and no request is issued.
C8_ScenarioB_Amended ==
    (ScenarioB /\ pc = "done") =>
        /\ \E r \in Reports : r.new_file = 0 /\ r.keep_file = 0
        /\ \E r \in Reports :
              /\ r.new_file = 1 /\ r.new_offset = 0
              /\ r.keep_file = 0 /\ r.keep_offset = MinDedupBlocks - 1
        /\ \A r \in Reports : ReportLength(r) < MinDedupBlocks
        /\ requests = <<>>

C8_Witness == ScenarioB /\ pc = "done" /\ ~simulate

\* the whole blocks of the catalog in scan order
RECURSIVE ScanOrderFrom(_, _)
ScanOrderFrom(list, f) ==
    IF f >= Len(list) THEN <<>>
    ELSE [b \in 1 .. Len(list[f + 1]) |-> <<f, b - 1>>] \o ScanOrderFrom(list, f + 1)

ScanOrder == ScanOrderFrom(file_list, 0)

Ended == pc \in {"done", "aborted", "panicked"}

\* steps the program can still take: blocks not yet read, two loop steps per
\* file not yet finished, and the end
Remaining ==
    LET list == build_file_list(inputs)
        blocks == total_full_blocks(list) - Len(visited)
        files == Len(list) - file_index
    IN  CASE pc = "start" -> blocks + (2 * files) + 2
          [] pc = "files" -> blocks + (2 * files) + 1
          [] pc = "scan" -> blocks + (2 * files)
          [] OTHER -> 0

\* not stuck, and what has been read is the start of the scan order, or all of it
Progressing ==
    /\ Ended \/ ENABLED Next
    /\ Len(visited) <= Len(ScanOrder)
    /\ visited = SubSeq(ScanOrder, 1, Len(visited))
    /\ pc = "done" => visited = ScanOrder

\* C9: the scan ends: until it has ended a step is always possible and every
\* step lowers the number of steps left; what it has read is at any time a
\* prefix of the catalog's whole blocks in catalog and block order, and when it
\* ends without a fatal error it has read every one of them exactly once.
C9_TerminationAndCoverage ==
    /\ Progressing
    /\ [][ /\ Progressing'
           /\ Remaining' < Remaining
           /\ Remaining' >= 0 ]_vars

\* a finished scan of two files that found a run of more than one block
C9_Witness ==
    /\ pc = "done"
    /\ Len(file_list) >= 2
    /\ total_matchsize > matches
    /\ Len(visited) >= 4

\* the most recent iteration called try_dedupe_match
Confirming == last.kind \in {"match", "collision", "panic"}

\* C10: the keep address handed to try_dedupe_match was visited strictly before
\* the current block: an earlier file, or the same file and a smaller block
\* offset; the assertions of lines 309 and 362 never fail.
C10_KeepPrecedesNew ==
    /\ Confirming =>
          \/ last.keep_file < last.file
          \/ (last.keep_file = last.file /\ last.keep_offset < last.block)
    /\ pc # "panicked"

\* a confirmed match within one file, where the assertions are evaluated
C10_Witness == Reported /\ SameFile /\ last.keep_offset + 1 < last.block

\* C11: every reported run stays inside the whole blocks of both files:
\* keep_offset - blocks_before >= 0, new_offset - blocks_before >= 0,
\* keep_offset + blocks_after < whole blocks of the keep file and
\* new_offset + blocks_after < whole blocks of the new file.
C11_RunsInsideWholeBlocks ==
    Reported =>
        /\ last.keep_offset - last.blocks_before >= 0
        /\ last.block - last.blocks_before >= 0
        /\ last.keep_offset + last.blocks_after < Len(KeepFile)
        /\ last.block + last.blocks_after < Len(NewFile)

\* the most recent iteration read a block that is no hole and went on
Indexed == last.kind \in {"skip", "miss", "collision", "match"}

\* the slots of the table
TableSize == total_full_blocks(file_list)

\* C12: the slot consulted and overwritten for a block that is no hole is its
\* checksum modulo the table size, the total whole-block count of the catalog,
\* whichever file the block is in.
C12_SlotIsChecksumModTableSize ==
    Indexed => last.slot = last.crc % TableSize

Occupied(i) == hashes[i].block_number_plus_one > 0

\* no occupied slot holds the checksum of a hole
OccupiedNonzero == \A i \in DOMAIN hashes : Occupied(i) => hashes[i].crc # 0

\* C13: every occupied slot holds a nonzero checksum, and the visit of a block
\* whose checksum is 0 changes nothing but the scan position: the table, the
\* skip-counter, the totals, the reports and the requests stay as they were,
\* and try_dedupe_match is not called.
C13_HolesNeverTouchIndex ==
    /\ OccupiedNonzero
    /\ [][ /\ OccupiedNonzero'
           /\ (Visits /\ current_crc = 0) =>
                 /\ last'.kind = "hole"
                 /\ hashes' = hashes
                 /\ skip_match_check' = skip_match_check
                 /\ matches' = matches
                 /\ total_matchsize' = total_matchsize
                 /\ reports' = reports
                 /\ requests' = requests
                 /\ pc' = "scan"
                 /\ block_number' = block_number + 1 ]_vars

\* a hole visited while the skip-counter is positive and the table is in use
C13_Witness ==
    /\ last.kind = "hole"
    /\ skip_match_check > 0
    /\ \E i \in DOMAIN hashes : Occupied(i)

\* every occupied slot points at a block of the catalog with the stored checksum
SlotsTrue ==
    \A i \in DOMAIN hashes :
        Occupied(i) =>
            /\ hashes[i].file_index < Len(file_list)
            /\ hashes[i].block_number_plus_one <= Len(file_list[hashes[i].file_index + 1])
            /\ hashes[i].crc =
                   Crc(file_list[hashes[i].file_index + 1][hashes[i].block_number_plus_one])

\* C14: after the visit of a block with nonzero checksum c at (f, b) the slot
\* selected for it holds c and (f, b), whether the match check was skipped,
\* missed, hit a false collision or was confirmed, and every other slot is as
\* it was; so each occupied slot's checksum is that of the block at its
\* stored location.
C14_EveryNonHoleBlockIndexed ==
    /\ SlotsTrue
    /\ [][ /\ SlotsTrue'
           /\ (Visits /\ current_crc # 0 /\ pc' = "scan") =>
                 /\ Indexed'
                 /\ DOMAIN hashes' = DOMAIN hashes
                 /\ hashes'[last'.slot] =
                        [crc |-> current_crc, block_number_plus_one |-> block_number + 1,
                         file_index |-> file_index]
                 /\ \A i \in DOMAIN hashes \ {last'.slot} : hashes'[i] = hashes[i] ]_vars

\* a block of a later file indexed while its match check was skipped
C14_Witness ==
    /\ last.kind = "skip"
    /\ last.file > 0
    /\ hashes[last.slot] =
           [crc |-> last.crc, block_number_plus_one |-> last.block + 1,
            file_index |-> last.file]

\* the file being scanned has a reported match, the most recent one being the
\* last report
RunHere == reports # <<>> /\ reports[Len(reports)].new_file = file_index

LastRun == reports[Len(reports)]

\* blocks of the most recent forward run at or after the scan position
ExpectedSkip ==
    IF RunHere /\ LastRun.new_offset + LastRun.blocks_after + 1 > block_number
    THEN LastRun.new_offset + LastRun.blocks_after + 1 - block_number
    ELSE 0

\* C15: while a file is scanned the skip-counter is the number of blocks of
\* the most recent match's forward run b+1 .. b+n that are still to be
\* visited: n right after the match at b, one less after each visited block,
\* 0 from block b+n+1 on; a match check is bypassed only for blocks b+1 .. b+n.
C15_SkipCoversForwardRun ==
    /\ pc = "scan" => skip_match_check = ExpectedSkip
    /\ last.kind = "skip" =>
          /\ RunHere
          /\ last.block > LastRun.new_offset
          /\ last.block <= LastRun.new_offset + LastRun.blocks_after

\* C16: when the block at the keep address and the current block differ,
\* try_dedupe_match returns no matched block: nothing is extended, reported or
\* requested, the totals and the skip-counter stay as they were, the scan goes
\* on with the next block and the slot takes the current block.
C16_FalseCollision ==
    [][ Visits =>
          /\ Confirming' =>
                (last'.kind = "collision" <=>
                    file_list[last'.keep_file + 1][last'.keep_offset + 1]
                        # file_list[file_index + 1][block_number + 1])
          /\ last'.kind = "collision" =>
                /\ last'.blocks_before = 0
                /\ last'.blocks_after = 0
                /\ ~last'.requested
                /\ reports' = reports
                /\ requests' = requests
                /\ matches' = matches
                /\ total_matchsize' = total_matchsize
                /\ skip_match_check' = skip_match_check
                /\ pc' = "scan"
                /\ block_number' = block_number + 1
                /\ hashes'[last'.slot] =
                       [crc |-> current_crc, block_number_plus_one |-> block_number + 1,
                        file_index |-> file_index] ]_vars

\* a false collision between blocks of two files, after a match was counted
C16_Witness ==
    /\ last.kind = "collision"
    /\ last.keep_file # last.file
    /\ matches > 0
    /\ pc = "scan"

\* the request do_dedup builds for the match the most recent iteration reported
RequestOfLast ==
    [src_file |-> last.keep_file,
     src_offset |-> (last.keep_offset - last.blocks_before) * 4096,
     src_length |-> (last.blocks_before + 1 + last.blocks_after) * 4096,
     dest_count |-> 1, reserved1 |-> 0, reserved2 |-> 0,
     dest_file |-> last.file,
     dest_offset |-> (last.block - last.blocks_before) * 4096,
     reserved |-> 0]

RequestFields == DOMAIN RequestOfLast

\* C17: a request is one record per eligible match: source the keep file at
\* (keep_offset - blocks_before) * 4096, destination the new file at
\* (new_offset - blocks_before) * 4096, length
\* (blocks_before + 1 + blocks_after) * 4096, dest_count 1, reserved fields 0.
C17_RequestContents ==
    [][ Visits =>
          /\ Len(requests') = Len(requests) + (IF last'.requested THEN 1 ELSE 0)
          /\ SubSeq(requests', 1, Len(requests)) = requests
          /\ last'.requested =>
                /\ Reported'
                /\ \A k \in RequestFields :
                       requests'[Len(requests')][k] = RequestOfLast'[k] ]_vars

\* a request for a run between two files that begins before the hit
C17_Witness ==
    /\ Reported
    /\ last.requested
    /\ last.blocks_before > 0
    /\ last.keep_file # last.file
    /\ requests # <<>>
    /\ requests[Len(requests)].src_offset > 0

Slots == Cardinality(DOMAIN hashes)

\* the table as main has just allocated it
Allocated == pc = "files" /\ file_index = 0

\* C18 as stated: the table has total_block_count slots, all empty at first,
\* and never zero slots: 1 slot when the catalog has no whole block.
C18_TableSize_AsStated ==
    pc # "start" =>
        /\ Slots = (IF TableSize = 0 THEN 1 ELSE TableSize)
        /\ Slots # 0
        /\ Allocated => \A i \in DOMAIN hashes : hashes[i] = EmptyBlockinfo

\* C18 amended: the table has exactly total_block_count slots, numbered from
\* 0, all empty at first; when the catalog has no whole block it has no slot,
\* and then no file is scanned and no block is visited.
C18_TableSize_Amended ==
    pc # "start" =>
        /\ DOMAIN hashes = 0 .. TableSize - 1
        /\ Slots = TableSize
        /\ Allocated => \A i \in DOMAIN hashes : hashes[i] = EmptyBlockinfo
        /\ TableSize = 0 =>
              /\ Slots = 0
              /\ file_list = <<>>
              /\ visited = <<>>
              /\ pc \in {"files", "done"}

\* a finished run over files none of which has a whole block
C18_Witness ==
    /\ pc = "done"
    /\ inputs # <<>>
    /\ TableSize = 0
    /\ Slots = 0

\* every value the checksum can take
Checksums == 0 .. (2 ^ CrcWidth) - 1

\* C19: the index arithmetic of the scan cannot fault: every file of the
\* catalog has a whole block, so the modulus of line 145 is nonzero; for every
\* checksum the slot number is below the number of slots; every stored
\* file_index is an index of the file list; keep_offset - blocks_before,
\* new_offset - blocks_before and, within one file,
\* new_offset - keep_offset - blocks_before are never negative.
C19_NoIndexFault ==
    pc # "start" =>
        /\ \A f \in DOMAIN file_list : Len(file_list[f]) > 0
        /\ \A f \in DOMAIN file_list, c \in Checksums :
               slot_of(c, Len(file_list[f])) \in DOMAIN hashes
        /\ (Indexed \/ Confirming) => last.slot \in DOMAIN hashes
        /\ \A i \in DOMAIN hashes :
               Occupied(i) => (hashes[i].file_index + 1) \in DOMAIN file_list
        /\ Confirming => (last.keep_file + 1) \in DOMAIN file_list
        /\ Reported =>
               /\ last.keep_offset - last.blocks_before >= 0
               /\ last.block - last.blocks_before >= 0
               /\ SameFile => last.block - last.keep_offset - last.blocks_before >= 0

\* a match within one file whose backward run uses up the whole distance,
\* under a path that also holds a file without a whole block
C19_Witness ==
    /\ Reported
    /\ SameFile
    /\ last.blocks_before > 0
    /\ last.block - last.keep_offset - last.blocks_before = 0
    /\ Len(inputs) > Len(file_list)

\* C20: the skip-counter is 0 when a file's first block is read, whatever it
\* was at the end of the file before, so a skipped match check always follows
\* a match in the same file; the table and the totals pass from file to file
\* as they are.
C20_SkipNotCarriedAcrossFiles ==
    [][ /\ (pc = "files" /\ pc' = "scan") =>
              /\ skip_match_check' = 0
              /\ block_number' = 0
              /\ hashes' = hashes
              /\ matches' = matches
              /\ total_matchsize' = total_matchsize
        /\ (pc = "scan" /\ pc' = "files") =>
              /\ file_index' = file_index + 1
              /\ hashes' = hashes
              /\ matches' = matches
              /\ total_matchsize' = total_matchsize
        /\ (Visits /\ block_number = 0) => skip_match_check = 0
        /\ (Visits /\ last'.kind = "skip") => RunHere ]_vars

\* the first block of a later file is about to be read and the file before
\* ended on a match with a forward run, which had set the skip-counter
C20_Witness ==
    /\ pc = "scan"
    /\ block_number = 0
    /\ file_index > 0
    /\ last.kind = "match"
    /\ last.blocks_after > 0
    /\ \E i \in DOMAIN hashes : Occupied(i)
    /\ skip_match_check = 0

====
